---- MODULE Spec2Model ----
(***************************************************************************)
(* StonksManager: the gateway's task coordinator (tasks/routes.py) over    *)
(* the Celery job queue, and the data service: the bounded-retry fetch     *)
(* (fetcher.py), the fetch-and-persist job (worker.py) and the OHLCV cache *)
(* (cache.py).                                                             *)
(*                                                                         *)
(* Spec      - the coordinator: analyze, get_task, the workers' progress   *)
(*             on the submitted jobs, and the expiry of task records.      *)
(* SpecFetch - StockDataFetcher.fetch_stock_data against a sequence of     *)
(*             upstream responses.                                         *)
(* SpecRecords - the record-building loop of fetch_stock_data over a chart.*)
(* SpecPipe  - worker.fetch_stock_data: fetch, upserts in one transaction, *)
(*             commit, cache write, on concurrent workers.                 *)
(* SpecCache - cache_ohlcv / get_cached_ohlcv and the expiry of entries.   *)
(***************************************************************************)
EXTENDS Integers, Sequences, FiniteSets, TLC

VARIABLES
    taskStore,   \* Redis: task id -> the stored meta, the key's remaining TTL
                 \* and the time since the key was last written
    jobs,        \* Celery result backend: job id -> state and result
    nextId,      \* number of analyze calls so far + 1 (fresh uuid4 ids)
    req,         \* client -> its get_task call: position, locals, response
    fetch,       \* one fetch_stock_data call: position, locals, counters
    build,       \* the record-building loop of one fetch: chart, index, records
    db,          \* PostgreSQL, committed: the stock_meta and stock_prices rows
    cache,       \* Redis: cache key -> the stored JSON value and remaining TTL
    run,         \* worker -> its worker.fetch_stock_data invocation
    reads,       \* reader -> its last get_cached_ohlcv call
    clock,       \* the data service's time, in seconds
    puts         \* uppercased symbol -> the latest cache_ohlcv call for it

dataVars == <<build, db, cache, run, reads, clock, puts>>

vars == <<taskStore, jobs, nextId, req, fetch, build, db, cache, run, reads, clock, puts>>

(***************************************************************************)
(* Bounds and program constants                                            *)
(***************************************************************************)
\* analyze calls in one behaviour
MaxTasks == 2
\* seconds that pass in one Tick
TickSeconds == 43200
\* largest attempt cap handed to fetch_stock_data
MaxAttemptCap == 3

_TASK_TTL == 60 * 60 * 24
\* default of the max_retries parameter
DefaultMaxRetries == 3

Clients == {"c1"}
Users == {"u1"}
TaskIds == 1..MaxTasks
JobIds == 1..MaxTasks

\* AnalyzeRequest bodies the clients send
Bodies ==
    { [symbol |-> "aapl", analyses |-> << >>, forecast_timeframe |-> "None"],
      [symbol |-> "AAPL", analyses |-> <<"technical">>, forecast_timeframe |-> "None"],
      [symbol |-> "Msft", analyses |-> <<"sentiment", "forecast">>,
       forecast_timeframe |-> "6m"] }

\* str.upper over the symbols of Bodies
Upper(s) ==
    CASE s = "aapl" -> "AAPL"
      [] s = "Msft" -> "MSFT"
      [] OTHER -> s

(***************************************************************************)
(* The job queue as the gateway sees it                                    *)
(***************************************************************************)
\* the exception a failed fetch_stock_data job ends with (an empty chart)
JobErrors == {"ValueError"}

\* a job nobody submitted reads as PENDING, as does one no worker has taken
NoJob == [state |-> "PENDING", result |-> "None"]

\* AsyncResult.state.lower()
Lower(state) ==
    CASE state = "PENDING" -> "pending"
      [] state = "STARTED" -> "started"
      [] state = "SUCCESS" -> "success"
      [] state = "FAILURE" -> "failure"

\* celery.states.READY_STATES: an AsyncResult caches its meta once it read one
READY_STATES == {"SUCCESS", "FAILURE"}

\* str(exception)
Str(exc) ==
    CASE exc = "HTTPError" -> "429 Client Error: Too Many Requests"
      [] exc = "ValueError" -> "No chart data returned"
      [] OTHER -> exc

\* successful() that takes a started job for a finished one
successful_started(state) == state \in {"SUCCESS", "STARTED"}

successful(state) == state = "SUCCESS"

\* failed() that is true of every job that has not succeeded
failed_notSucceeded(state) == state # "SUCCESS"

failed(state) == state = "FAILURE"

(***************************************************************************)
(* Task store helpers                                                      *)
(***************************************************************************)
\* _get_task_meta that answers a missing key with a default record
_get_task_meta_default(store, task_id) ==
    IF task_id \in DOMAIN store
      THEN [found |-> TRUE, meta |-> store[task_id].meta]
      ELSE [found |-> TRUE,
            meta |-> [symbol |-> "", analyses |-> << >>, forecast_timeframe |-> "None",
                      user_id |-> "", sub_tasks |-> "data" :> task_id,
                      status |-> "fetching_data"]]

\* _get_task_meta: the stored meta, or the 404. The value is the JSON text of
\* a dict of strings, a list of strings and a dict of strings, which json.loads
\* gives back as json.dumps took it; the store holds the meta itself.
_get_task_meta(store, task_id) ==
    IF task_id \in DOMAIN store
      THEN [found |-> TRUE, meta |-> store[task_id].meta]
      ELSE [found |-> FALSE]

\* _save_task_meta that keeps the TTL of a key it finds (SET with KEEPTTL)
_save_task_meta_keepTtl(store, task_id, meta) ==
    [k \in (DOMAIN store) \cup {task_id} |->
        IF k = task_id
          THEN [meta |-> meta,
                ttl |-> IF k \in DOMAIN store THEN store[k].ttl ELSE _TASK_TTL]
          ELSE store[k]]

\* _save_task_meta: SETEX writes the value and restarts the key's TTL
_save_task_meta(store, task_id, meta) ==
    [k \in (DOMAIN store) \cup {task_id} |->
        IF k = task_id THEN [meta |-> meta, ttl |-> _TASK_TTL] ELSE store[k]]

\* the store with the write to task_id noted: no time has passed since
Touched(store, task_id) ==
    [k \in DOMAIN store |->
        IF k = task_id
          THEN [meta |-> store[k].meta, ttl |-> store[k].ttl, idle |-> 0]
          ELSE store[k]]

(***************************************************************************)
(* get_task: the status composition                                        *)
(***************************************************************************)
\* the loop with the else arm of line 106 leaving all_done alone
RECURSIVE AnalysisLoop_keepDone(_, _, _, _)
AnalysisLoop_keepDone(meta, backend, i, acc) ==
    IF i > Len(meta.analyses)
      THEN acc
      ELSE
        LET analysis == meta.analyses[i]
        IN  AnalysisLoop_keepDone(meta, backend, i + 1,
                [results |-> (analysis :> [status |-> "pending"]) @@ acc.results,
                 all_done |-> acc.all_done,
                 lookups |-> acc.lookups])

\* the loop with the else arm of line 106 recording no entry
RECURSIVE AnalysisLoop_noEntry(_, _, _, _)
AnalysisLoop_noEntry(meta, backend, i, acc) ==
    IF i > Len(meta.analyses)
      THEN acc
      ELSE AnalysisLoop_noEntry(meta, backend, i + 1,
                [results |-> acc.results, all_done |-> FALSE, lookups |-> acc.lookups])

\* lines 96-109, one pass of the loop over meta["analyses"] from index i on;
\* acc carries results, all_done and the roles looked up in the job queue
RECURSIVE AnalysisLoop(_, _, _, _)
AnalysisLoop(meta, backend, i, acc) ==
    IF i > Len(meta.analyses)
      THEN acc
      ELSE
        LET analysis == meta.analyses[i]
            sub_tasks == meta.sub_tasks
        IN  IF analysis \in DOMAIN sub_tasks
              THEN
                LET r == backend[sub_tasks[analysis]]
                    entry ==
                        IF successful(r.state)
                          THEN [status |-> Lower(r.state), result |-> r.result]
                          ELSE IF failed(r.state)
                            THEN [status |-> Lower(r.state), error |-> Str(r.result)]
                            ELSE [status |-> Lower(r.state)]
                IN  AnalysisLoop(meta, backend, i + 1,
                        [results |-> (analysis :> entry) @@ acc.results,
                         all_done |-> acc.all_done
                                        /\ (successful(r.state) \/ failed(r.state)),
                         lookups |-> acc.lookups \cup {analysis}])
              ELSE
                \* Worker not yet implemented (Phase 3+)
                AnalysisLoop(meta, backend, i + 1,
                        [results |-> (analysis :> [status |-> "pending"]) @@ acc.results,
                         all_done |-> FALSE,
                         lookups |-> acc.lookups])

\* the success branch with line 111's test inverted
SuccessBranch_inverted(meta, backend, data_status, data_result) ==
    LET loop == AnalysisLoop(meta, backend, 1,
                    [results |-> "data" :> [status |-> data_status,
                                            result |-> data_result],
                     all_done |-> TRUE,
                     lookups |-> {}])
    IN  [overall |-> IF loop.all_done THEN "analyzing" ELSE "complete",
         results |-> loop.results,
         lookups |-> loop.lookups]

\* lines 91-111: the data job is successful
SuccessBranch(meta, backend, data_status, data_result) ==
    LET loop == AnalysisLoop(meta, backend, 1,
                    [results |-> "data" :> [status |-> data_status,
                                            result |-> data_result],
                     all_done |-> TRUE,
                     lookups |-> {}])
    IN  [overall |-> IF loop.all_done THEN "complete" ELSE "analyzing",
         results |-> loop.results,
         lookups |-> loop.lookups]

\* the failed branch that still walks the requested analyses
FailedBranch_walks(meta, backend, data_status, data_result) ==
    LET loop == AnalysisLoop(meta, backend, 1,
                    [results |-> "data" :> [status |-> data_status,
                                            error |-> Str(data_result)],
                     all_done |-> TRUE,
                     lookups |-> {}])
    IN  [overall |-> "failed", results |-> loop.results, lookups |-> loop.lookups]

\* lines 113-115: the data job failed
FailedBranch(meta, backend, data_status, data_result) ==
    [overall |-> "failed",
     results |-> "data" :> [status |-> data_status, error |-> Str(data_result)],
     lookups |-> {}]

\* lines 116-117: neither
PendingBranch(meta, data_status) ==
    [overall |-> "fetching_data",
     results |-> "data" :> [status |-> data_status],
     lookups |-> {}]

\* lines 91-117 on the data job's meta r as the AsyncResult holds it
Compose(meta, backend, data_status, r) ==
    IF successful(r.state) THEN SuccessBranch(meta, backend, data_status, r.result)
    ELSE IF failed(r.state) THEN FailedBranch(meta, backend, data_status, r.result)
    ELSE PendingBranch(meta, data_status)

\* line 119 with the requested analyses emptied as well
WithStatus_clearsAnalyses(meta, overall_status) ==
    [meta EXCEPT !.status = overall_status, !.analyses = << >>]

\* line 119 with the requested analyses recorded as dispatched once the data
\* job has succeeded
WithStatus_dispatching(meta, overall_status) ==
    [meta EXCEPT
        !.status = overall_status,
        !.sub_tasks =
            IF overall_status = "analyzing"
              THEN [a \in {"data"} \cup {meta.analyses[i] : i \in 1..Len(meta.analyses)}
                      |-> meta.sub_tasks["data"]]
              ELSE @]

\* line 119 left out
WithStatus_dropped(meta, overall_status) == meta

\* line 119
WithStatus(meta, overall_status) == [meta EXCEPT !.status = overall_status]

\* lines 122-127
TaskResponse(task_id, meta, overall_status, results) ==
    [task_id |-> task_id, symbol |-> meta.symbol,
     status |-> overall_status, results |-> results]

Resting == {"idle", "notfound", "done"}

(***************************************************************************)
(* Initial state                                                           *)
(***************************************************************************)
FetchIdle == [pc |-> "idle"]

Workers == {"w1", "w2"}
Readers == {"r1"}

\* the database, the cache and the workers before any job ran
StoreIdle ==
    /\ db = [meta |-> {}, prices |-> {}]
    /\ cache = << >>
    /\ run = [w \in Workers |-> [pc |-> "idle"]]
    /\ reads = [r \in Readers |-> [pc |-> "idle"]]
    /\ clock = 0
    /\ puts = << >>

\* the data service before any job ran: no rows, nothing cached
DataIdle ==
    /\ build = [pc |-> "idle"]
    /\ StoreIdle

\* the gateway before any request
GatewayIdle ==
    /\ taskStore = << >>
    /\ jobs = [j \in JobIds |-> NoJob]
    /\ nextId = 1
    /\ req = [c \in Clients |-> [pc |-> "idle"]]

gatewayVars == <<taskStore, jobs, nextId, req>>

Init ==
    /\ taskStore = << >>
    /\ jobs = [j \in JobIds |-> NoJob]
    /\ nextId = 1
    /\ req = [c \in Clients |-> [pc |-> "idle"]]
    /\ fetch = FetchIdle
    /\ DataIdle

(***************************************************************************)
(* POST /analyze                                                           *)
(***************************************************************************)
\* the meta with every requested analysis recorded as dispatched
InitialMeta_dispatched(body, user_id, data_result_id) ==
    [symbol |-> Upper(body.symbol),
     analyses |-> body.analyses,
     forecast_timeframe |-> body.forecast_timeframe,
     user_id |-> user_id,
     sub_tasks |-> [a \in {"data"} \cup {body.analyses[i] : i \in 1..Len(body.analyses)}
                      |-> data_result_id],
     status |-> "fetching_data"]

\* lines 53-72: the meta analyze stores for a new task
InitialMeta(body, user_id, data_result_id) ==
    [symbol |-> Upper(body.symbol),
     analyses |-> body.analyses,
     forecast_timeframe |-> body.forecast_timeframe,
     user_id |-> user_id,
     sub_tasks |-> "data" :> data_result_id,
     status |-> "fetching_data"]

analyze(body, user_id) ==
    /\ nextId <= MaxTasks
    /\ LET task_id == nextId
           data_result_id == nextId
           meta == InitialMeta(body, user_id, data_result_id)
       IN  /\ jobs' = [jobs EXCEPT ![data_result_id] = NoJob]
           /\ taskStore' = Touched(_save_task_meta(taskStore, task_id, meta), task_id)
    /\ nextId' = nextId + 1
    /\ UNCHANGED <<req, fetch, dataVars>>

(***************************************************************************)
(* GET /tasks/{task_id}                                                    *)
(* Every call on an AsyncResult that has not yet read a ready state reads  *)
(* the result backend again, so .state (line 89), .successful() (line 91)  *)
(* and .failed() (line 113) are separate reads a worker may come between.  *)
(***************************************************************************)
\* the handler's locals once overall_status is computed, before line 119
Computed(q, view) ==
    [pc |-> "save", task_id |-> q.task_id, meta |-> q.meta, state0 |-> q.state0,
     overall_status |-> view.overall, results |-> view.results,
     lookups |-> q.lookups \cup view.lookups, earlier |-> q.earlier]

\* the statuses past fetching_data that get_task has answered for the task
\* before a call that starts now
Earlier(task_id) ==
    {req[x].response.status :
        x \in {y \in DOMAIN req : req[y].pc = "done" /\ req[y].task_id = task_id}}
      \ {"fetching_data"}

\* lines 83-89: load the meta, read the data job's state
get_task_state(c, task_id) ==
    /\ req[c].pc \in Resting
    /\ LET got == _get_task_meta(taskStore, task_id)
       IN  IF ~got.found
             THEN req' = [req EXCEPT ![c] =
                            [pc |-> "notfound", task_id |-> task_id, lookups |-> {}]]
             ELSE
               LET r == jobs[got.meta.sub_tasks["data"]]
                   q == [pc |-> "successful", task_id |-> task_id, meta |-> got.meta,
                         state0 |-> r.state, data_status |-> Lower(r.state),
                         lookups |-> {"data"}, earlier |-> Earlier(task_id)]
               IN  IF r.state \in READY_STATES
                     THEN req' = [req EXCEPT ![c] =
                                    Computed(q, Compose(q.meta, jobs, q.data_status, r))]
                     ELSE req' = [req EXCEPT ![c] = q]
    /\ UNCHANGED <<taskStore, jobs, nextId, fetch, dataVars>>

\* line 91: data_result.successful() reads the backend again
get_task_successful(c) ==
    /\ req[c].pc = "successful"
    /\ LET q == req[c]
           r == jobs[q.meta.sub_tasks["data"]]
       IN  IF successful(r.state) \/ r.state \in READY_STATES
             THEN req' = [req EXCEPT ![c] =
                            Computed(q, Compose(q.meta, jobs, q.data_status, r))]
             ELSE req' = [req EXCEPT ![c] = [q EXCEPT !.pc = "failed"]]
    /\ UNCHANGED <<taskStore, jobs, nextId, fetch, dataVars>>

\* line 113: data_result.failed() reads the backend again
get_task_failed(c) ==
    /\ req[c].pc = "failed"
    /\ LET q == req[c]
           r == jobs[q.meta.sub_tasks["data"]]
           view == IF failed(r.state)
                     THEN FailedBranch(q.meta, jobs, q.data_status, r.result)
                     ELSE PendingBranch(q.meta, q.data_status)
       IN  req' = [req EXCEPT ![c] = Computed(q, view)]
    /\ UNCHANGED <<taskStore, jobs, nextId, fetch, dataVars>>

\* lines 119-127: store the status, answer
get_task_save(c) ==
    /\ req[c].pc = "save"
    /\ LET q == req[c]
           meta == WithStatus(q.meta, q.overall_status)
       IN  /\ taskStore' = Touched(_save_task_meta(taskStore, q.task_id, meta),
                                   q.task_id)
           /\ req' = [req EXCEPT ![c] =
                 [pc |-> "done", task_id |-> q.task_id, meta |-> meta,
                  state0 |-> q.state0, lookups |-> q.lookups,
                  response |-> TaskResponse(q.task_id, meta, q.overall_status, q.results)]]
    /\ UNCHANGED <<jobs, nextId, fetch, dataVars>>

(***************************************************************************)
(* The workers' side of a submitted job                                    *)
(***************************************************************************)
Submitted(j) == j < nextId

\* a worker takes the job from the "data" queue (the backend shows STARTED
\* only to a deployment that tracks started tasks; otherwise the job reads
\* PENDING until it ends, which the coordinator treats alike)
WorkerStart(j) ==
    /\ Submitted(j)
    /\ jobs[j].state = "PENDING"
    /\ jobs' = [jobs EXCEPT ![j].state = "STARTED"]
    /\ UNCHANGED <<taskStore, nextId, req, fetch, dataVars>>

\* worker.fetch_stock_data returned its summary
WorkerSucceed(j) ==
    /\ jobs[j].state = "STARTED"
    /\ jobs' = [jobs EXCEPT ![j] = [state |-> "SUCCESS", result |-> "summary"]]
    /\ UNCHANGED <<taskStore, nextId, req, fetch, dataVars>>

\* worker.fetch_stock_data raised
WorkerFail(j) ==
    /\ jobs[j].state = "STARTED"
    /\ \E e \in JobErrors :
         jobs' = [jobs EXCEPT ![j] = [state |-> "FAILURE", result |-> e]]
    /\ UNCHANGED <<taskStore, nextId, req, fetch, dataVars>>

(***************************************************************************)
(* Time: TickSeconds pass, keys whose TTL ran out are gone                 *)
(***************************************************************************)
Tick ==
    /\ DOMAIN taskStore # {}
    /\ LET live == {k \in DOMAIN taskStore : taskStore[k].ttl > TickSeconds}
       IN  taskStore' = [k \in live |->
                            [taskStore[k] EXCEPT !.ttl = @ - TickSeconds,
                                                 !.idle = @ + TickSeconds]]
    /\ UNCHANGED <<jobs, nextId, req, fetch, dataVars>>

Next ==
    \/ \E b \in Bodies, u \in Users : analyze(b, u)
    \/ \E c \in Clients, t \in TaskIds : get_task_state(c, t)
    \/ \E c \in Clients : get_task_successful(c)
    \/ \E c \in Clients : get_task_failed(c)
    \/ \E c \in Clients : get_task_save(c)
    \/ \E j \in JobIds : WorkerStart(j)
    \/ \E j \in JobIds : WorkerSucceed(j)
    \/ \E j \in JobIds : WorkerFail(j)
    \/ Tick

Spec == Init /\ [][Next]_vars

(***************************************************************************)
(* StockDataFetcher.fetch_stock_data: the retry loop                       *)
(***************************************************************************)
RetryDelay == 30

\* what one requests.get can come to: no response at all (connection error,
\* timeout), or a response with a status code and, under 200, a chart result
\* array that holds a chart or is empty
NoResponse == [kind |-> "no_response"]
HttpResponse(code, result) == [kind |-> "response", status_code |-> code, result |-> result]
Upstream ==
    {NoResponse, HttpResponse(200, "chart"), HttpResponse(200, "empty"),
     HttpResponse(429, "none"), HttpResponse(404, "none"), HttpResponse(500, "none")}

\* Response.raise_for_status raises HTTPError on a 4xx or 5xx status
RaisesForStatus(code) == 400 <= code /\ code < 600

\* lines 111 and 120, with the off-by-one that never sees the last attempt
IsLastAttempt_late(attempt, max_retries) == attempt = max_retries

\* lines 111 and 120: attempt == max_retries - 1
IsLastAttempt(attempt, max_retries) == attempt = max_retries - 1

\* line 56, the for statement taking the value `attempt` (falling out of the
\* loop when range(max_retries) is used up), then line 58
Iterate(f, attempt) ==
    IF attempt >= f.max_retries
      THEN [f EXCEPT !.pc = "fell_through"]
      ELSE [f EXCEPT !.attempt = attempt,
                     !.pc = IF attempt > 0 THEN "sleep" ELSE "request"]

Raise(f, exc) == [f EXCEPT !.pc = "raised", !.exc = exc]

\* lines 106-114 with the status test of line 107 left out
OnHTTPError_any(f, code) ==
    IF IsLastAttempt(f.attempt, f.max_retries)
      THEN Raise(f, "HTTPError")
      ELSE Iterate(f, f.attempt + 1)

\* lines 106-114: except HTTPError
OnHTTPError(f, code) ==
    IF code = 429
      THEN IF IsLastAttempt(f.attempt, f.max_retries)
             THEN Raise(f, "HTTPError")
             ELSE Iterate(f, f.attempt + 1)
      ELSE Raise(f, "HTTPError")

\* lines 116-122: except Exception
OnException(f, exc) ==
    IF IsLastAttempt(f.attempt, f.max_retries)
      THEN Raise(f, exc)
      ELSE Iterate(f, f.attempt + 1)

\* lines 61-104 and the handlers: the attempt's outcome on upstream answer r
Attempt(f, r) ==
    IF r.kind = "no_response"
      THEN OnException(f, "ConnectionError")
    ELSE IF RaisesForStatus(r.status_code)
      THEN OnHTTPError(f, r.status_code)
    ELSE IF r.result = "empty"
      THEN OnException(f, "ValueError")
    ELSE [f EXCEPT !.pc = "returned"]

\* the call fetch_stock_data(symbol, max_retries) about to enter its loop
FetchCall(max_retries, upstream) ==
    Iterate([pc |-> "call", max_retries |-> max_retries, upstream |-> upstream,
             attempt |-> 0, requests |-> 0, sleeps |-> 0, waited |-> 0,
             exc |-> "None"], 0)

InitFetch ==
    /\ taskStore = << >>
    /\ jobs = [j \in JobIds |-> NoJob]
    /\ nextId = 1
    /\ req = [c \in Clients |-> [pc |-> "idle"]]
    /\ \E n \in 1..MaxAttemptCap :
         \E upstream \in [1..n -> Upstream] :
            fetch = FetchCall(n, upstream)
    /\ DataIdle

\* line 59: time.sleep(retry_delay)
FetchSleep ==
    /\ fetch.pc = "sleep"
    /\ fetch' = [fetch EXCEPT !.pc = "request", !.sleeps = @ + 1,
                              !.waited = @ + RetryDelay]
    /\ UNCHANGED <<taskStore, jobs, nextId, req, dataVars>>

\* lines 61-122: the request of this attempt and what the attempt ends in
FetchRequest ==
    /\ fetch.pc = "request"
    /\ LET f == [fetch EXCEPT !.requests = @ + 1]
       IN  fetch' = Attempt(f, f.upstream[f.requests])
    /\ UNCHANGED <<taskStore, jobs, nextId, req, dataVars>>

NextFetch == FetchSleep \/ FetchRequest

\* the call runs on its worker until it returns or raises
SpecFetch == InitFetch /\ [][NextFetch]_vars /\ WF_vars(NextFetch)

(***************************************************************************)
(* fetch_stock_data: building the OHLCV records from a chart               *)
(***************************************************************************)
\* timestamps in one chart
MaxTimestamps == 3

\* JSON null in a quote array
Null == 0 - 1

SecondsPerDay == 24 * 60 * 60

\* datetime.fromtimestamp(ts, tz=timezone.utc).date(): a date value, by its
\* day number since 1970-01-01
UtcDate(ts) == [date |-> ts \div SecondsPerDay]

\* round(float(x), 4): raw prices are counted in 0.00001, rounded ones in 0.0001
\* (a raw price halfway between two goes to the even one)
Round4(x) ==
    LET q == x \div 10
        r == x % 10
    IN  IF r > 5 \/ (r = 5 /\ q % 2 = 1) THEN q + 1 ELSE q

Fields == {"open", "high", "low", "close", "volume"}

\* one timestamp's values across the five parallel arrays
Quote(o, h, l, c, v) == [open |-> o, high |-> h, low |-> l, close |-> c, volume |-> v]

\* the values a timestamp can carry: complete ones, and ones with a gap
Quotes ==
    { Quote(1500004, 1512346, 1490000, 1500506, 1000),
      Quote(1500506, 1520000, 1500004, 1512346, 2500),
      Quote(Null, 1512346, 1490000, 1500506, 1000),
      Quote(1500004, Null, 1490000, 1500506, 1000),
      Quote(1500004, 1512346, Null, 1500506, 1000),
      Quote(1500004, 1512346, 1490000, Null, 1000),
      Quote(1500004, 1512346, 1490000, 1500506, Null),
      Quote(Null, Null, Null, Null, Null) }

\* timestamp arrays: one trading day after the other at 14:30 UTC, or with a
\* second timestamp later on the first day
TimestampArrays ==
    { [i \in 1..n |-> (i - 1) * SecondsPerDay + 52200] : n \in 0..MaxTimestamps }
    \cup { [i \in 1..n |-> IF i = 2 THEN 52200 + 3600
                           ELSE (i - 1) * SecondsPerDay + 52200] : n \in 2..MaxTimestamps }

\* chart["timestamp"] and chart["indicators"]["quote"][0] as parallel arrays
Chart(timestamps, quotes) ==
    [timestamp |-> timestamps,
     quote |-> [k \in Fields |-> [i \in 1..Len(timestamps) |-> quotes[i][k]]]]

Charts ==
    UNION { {Chart(ts, qs) : qs \in [1..Len(ts) -> Quotes]} : ts \in TimestampArrays }

\* line 88 without the volume among the keys tested
HasGap_noVolume(ohlcv, i) ==
    \E k \in {"open", "high", "low", "close"} : ohlcv[k][i] = Null

\* line 88: any(ohlcv[k][i] is None for k in (...))
HasGap(ohlcv, i) ==
    \E k \in Fields : ohlcv[k][i] = Null

\* lines 92-100: the record of timestamp i
Record(symbol, chart, i) ==
    [symbol |-> Upper(symbol),
     date |-> UtcDate(chart.timestamp[i]),
     open |-> Round4(chart.quote["open"][i]),
     high |-> Round4(chart.quote["high"][i]),
     low |-> Round4(chart.quote["low"][i]),
     close |-> Round4(chart.quote["close"][i]),
     volume |-> chart.quote["volume"][i]]

\* lines 86-101: one pass of the loop body, at timestamp i
LoopBody(symbol, chart, i, records) ==
    IF HasGap(chart.quote, i)
      THEN records
      ELSE Append(records, Record(symbol, chart, i))

\* lines 85-101: the whole loop from timestamp i on
RECURSIVE BuildRecords(_, _, _, _)
BuildRecords(symbol, chart, i, records) ==
    IF i > Len(chart.timestamp)
      THEN records
      ELSE BuildRecords(symbol, chart, i + 1, LoopBody(symbol, chart, i, records))

\* lines 77-82: the metadata of the response
Meta(symbol, raw_meta) ==
    [symbol |-> Upper(symbol),
     name |-> IF raw_meta.longName # "None" THEN raw_meta.longName
              ELSE raw_meta.shortName,
     sector |-> "None",
     currency |-> raw_meta.currency]

InitRecords ==
    /\ GatewayIdle
    /\ fetch = FetchIdle
    /\ StoreIdle
    /\ \E symbol \in {"aapl", "MSFT"}, chart \in Charts :
         build = [pc |-> "loop", symbol |-> symbol, chart |-> chart, i |-> 1,
                  records |-> << >>]

\* lines 86-101: the loop takes the next timestamp
RecordsLoop ==
    /\ build.pc = "loop"
    /\ build.i <= Len(build.chart.timestamp)
    /\ build' = [build EXCEPT
                    !.records = LoopBody(build.symbol, build.chart, build.i, @),
                    !.i = @ + 1]
    /\ UNCHANGED <<gatewayVars, fetch, db, cache, run, reads, clock, puts>>

\* lines 103-104: the loop is over, the records are returned
RecordsReturn ==
    /\ build.pc = "loop"
    /\ build.i > Len(build.chart.timestamp)
    /\ build' = [build EXCEPT !.pc = "returned"]
    /\ UNCHANGED <<gatewayVars, fetch, db, cache, run, reads, clock, puts>>

NextRecords == RecordsLoop \/ RecordsReturn

SpecRecords == InitRecords /\ [][NextRecords]_vars

(***************************************************************************)
(* cache.py: the OHLCV cache in Redis                                      *)
(***************************************************************************)
\* settings.CACHE_TTL, seconds
CACHE_TTL == 3600
\* seconds that pass in one CacheTick
CacheTickSeconds == 1800
\* the time up to which the cache is followed, in ticks
MaxCacheTicks == 3

\* the charts the upstream answers with in the runs of the cache and the
\* pipeline: two days; the same two days revised, with a gap on the first;
\* two timestamps on one day
StoredCharts ==
    { Chart(<<52200, 138600>>,
            <<Quote(1500004, 1512346, 1490000, 1500506, 1000),
              Quote(1500506, 1520000, 1500004, 1512346, 2500)>>),
      Chart(<<52200, 138600>>,
            <<Quote(1500004, 1512346, 1490000, 1500506, Null),
              Quote(1500506, 1520000, 1500004, 1519996, 2600)>>),
      Chart(<<52200, 55800>>,
            <<Quote(1500004, 1512346, 1490000, 1500506, 1000),
              Quote(1500004, 1512346, 1490000, 1507777, 1800)>>) }

\* the key without the upper(): f"stock:{symbol}:ohlcv"
_make_key_asGiven(symbol) == <<"stock", symbol, "ohlcv">>

\* _make_key: f"stock:{symbol.upper()}:ohlcv"
_make_key(symbol) == <<"stock", Upper(symbol), "ohlcv">>

\* date.isoformat(): the string of a date value
isoformat(d) == [iso |-> d.date]

\* date.fromisoformat(): the date value of such a string
fromisoformat(text) == [date |-> text.iso]

\* isinstance(x, date) / isinstance(x, str) on a record's "date"
IsDate(x) == DOMAIN x = {"date"}
IsStr(x) == DOMAIN x = {"iso"}

\* _serialize_record
_serialize_record(record) ==
    IF IsDate(record.date) THEN [record EXCEPT !.date = isoformat(@)] ELSE record

\* _deserialize_record
_deserialize_record(record) ==
    IF IsStr(record.date) THEN [record EXCEPT !.date = fromisoformat(@)] ELSE record

\* the value cache_ohlcv stores: the JSON array of the serialized records
Serialized(records) == [i \in 1..Len(records) |-> _serialize_record(records[i])]

\* cache_ohlcv with a plain SET, no expiry
cache_ohlcv_noExpiry(store, now, symbol, records) ==
    [k \in (DOMAIN store) \cup {_make_key(symbol)} |->
        IF k = _make_key(symbol)
          THEN [value |-> Serialized(records),
                expires_at |-> now + CACHE_TTL * (MaxCacheTicks + 1)]
          ELSE store[k]]

\* cache_ohlcv that adds the records to the entry it finds (RPUSH, EXPIRE)
cache_ohlcv_append(store, now, symbol, records) ==
    [k \in (DOMAIN store) \cup {_make_key(symbol)} |->
        IF k = _make_key(symbol)
          THEN [value |-> (IF k \in DOMAIN store THEN store[k].value ELSE << >>)
                              \o Serialized(records),
                expires_at |-> now + CACHE_TTL]
          ELSE store[k]]

\* cache_ohlcv that leaves an entry it finds as it is (SET with NX)
cache_ohlcv_keepExisting(store, now, symbol, records) ==
    [k \in (DOMAIN store) \cup {_make_key(symbol)} |->
        IF k = _make_key(symbol) /\ k \notin DOMAIN store
          THEN [value |-> Serialized(records), expires_at |-> now + CACHE_TTL]
          ELSE store[k]]

\* cache_ohlcv: SETEX key CACHE_TTL value, at time now
cache_ohlcv(store, now, symbol, records) ==
    [k \in (DOMAIN store) \cup {_make_key(symbol)} |->
        IF k = _make_key(symbol)
          THEN [value |-> Serialized(records), expires_at |-> now + CACHE_TTL]
          ELSE store[k]]

\* Redis GET at time now: the value of a key that is set and has not expired
RedisGet(store, now, key) ==
    IF key \in DOMAIN store /\ now < store[key].expires_at
      THEN [found |-> TRUE, value |-> store[key].value]
      ELSE [found |-> FALSE]

\* get_cached_ohlcv: the records, or None on a miss
get_cached_ohlcv(store, now, symbol) ==
    LET raw == RedisGet(store, now, _make_key(symbol))
    IN  IF ~raw.found
          THEN [hit |-> FALSE]
          ELSE [hit |-> TRUE,
                records |-> [i \in 1..Len(raw.value) |->
                                _deserialize_record(raw.value[i])]]

CacheSymbols == {"aapl", "AAPL", "MSFT"}

\* the history of puts after cache_ohlcv(symbol, records) at time now
Noted(history, now, symbol, records) ==
    [u \in (DOMAIN history) \cup {Upper(symbol)} |->
        IF u = Upper(symbol)
          THEN [at |-> now, symbol |-> symbol, records |-> records]
          ELSE history[u]]

\* the latest cache_ohlcv call for the symbol, in any spelling
LatestPut(history, symbol) ==
    IF Upper(symbol) \in DOMAIN history THEN history[Upper(symbol)] ELSE [at |-> Null]

InitCache ==
    /\ GatewayIdle
    /\ fetch = FetchIdle
    /\ DataIdle

\* a worker calls cache_ohlcv(symbol, records)
CachePut(symbol, chart) ==
    /\ cache' = cache_ohlcv(cache, clock, symbol, BuildRecords(symbol, chart, 1, << >>))
    /\ puts' = Noted(puts, clock, symbol, BuildRecords(symbol, chart, 1, << >>))
    /\ UNCHANGED <<gatewayVars, fetch, build, db, run, reads, clock>>

\* a reader calls get_cached_ohlcv(symbol)
CacheGet(r, symbol) ==
    /\ reads' = [reads EXCEPT ![r] =
                    [pc |-> "done", symbol |-> symbol, at |-> clock,
                     put_at |-> LatestPut(puts, symbol).at,
                     put |-> LatestPut(puts, symbol),
                     result |-> get_cached_ohlcv(cache, clock, symbol)]]
    /\ UNCHANGED <<gatewayVars, fetch, build, db, cache, run, clock, puts>>

\* CacheTickSeconds pass
CacheTick ==
    /\ clock < MaxCacheTicks * CacheTickSeconds
    /\ clock' = clock + CacheTickSeconds
    /\ UNCHANGED <<gatewayVars, fetch, build, db, cache, run, reads, puts>>

NextCache ==
    \/ \E symbol \in CacheSymbols, chart \in StoredCharts : CachePut(symbol, chart)
    \/ \E r \in Readers, symbol \in CacheSymbols : CacheGet(r, symbol)
    \/ CacheTick

SpecCache == InitCache /\ [][NextCache]_vars

(***************************************************************************)
(* worker.py: fetch_stock_data, the fetch-and-persist job                  *)
(* The database is PostgreSQL at READ COMMITTED: a session's statements    *)
(* see the committed rows and the session's own writes; a write to a row   *)
(* another open transaction has written waits for that transaction to end. *)
(***************************************************************************)
\* the invocations followed in one run
MaxInvocations == 2

\* the symbol the jobs are for, as the gateway or another caller spells it
PipeSymbols == {"aapl", "AAPL"}

\* the "meta" object of the chart response
RawMeta == [longName |-> "None", shortName |-> "Acme", currency |-> "USD"]

\* what fetcher.fetch_stock_data returns for a response
FetchResult(symbol, chart) ==
    [records |-> BuildRecords(symbol, chart, 1, << >>), meta |-> Meta(symbol, RawMeta)]

NoWrites == [meta |-> {}, prices |-> {}]

\* the primary keys (models.py)
PrimaryKey == [meta |-> {"symbol"}, prices |-> {"symbol", "date"}]

SameKey(table, a, b) == \A k \in PrimaryKey[table] : a[k] = b[k]

\* the rows of a table a session sees: its own writes over the committed rows
View(database, writes, table) ==
    {r \in database[table] : ~\E x \in writes[table] : SameKey(table, r, x)}
        \cup writes[table]

\* INSERT ... VALUES values, with no ON CONFLICT clause
OnConflictDoUpdate_plainInsert(rows, table, values, set_) ==
    IF \E r \in rows : SameKey(table, r, values)
      THEN [ok |-> FALSE]
      ELSE [ok |-> TRUE, row |-> values]

\* INSERT ... VALUES values ON CONFLICT (primary key) DO NOTHING
OnConflictDoUpdate_doNothing(rows, table, values, set_) ==
    IF \E r \in rows : SameKey(table, r, values)
      THEN [ok |-> TRUE, row |-> CHOOSE r \in rows : SameKey(table, r, values)]
      ELSE [ok |-> TRUE, row |-> values]

\* INSERT ... VALUES values ON CONFLICT (primary key) DO UPDATE SET set_:
\* the row the statement leaves under the key of values
OnConflictDoUpdate(rows, table, values, set_) ==
    IF \E r \in rows : SameKey(table, r, values)
      THEN LET old == CHOOSE r \in rows : SameKey(table, r, values)
           IN  [ok |-> TRUE,
                row |-> [k \in DOMAIN old |->
                            IF k \in DOMAIN set_ THEN set_[k] ELSE old[k]]]
      ELSE [ok |-> TRUE, row |-> values]

\* the session's writes after it wrote row
Written(writes, table, row) ==
    [writes EXCEPT ![table] = {x \in @ : ~SameKey(table, x, row)} \cup {row}]

\* COMMIT of the stock_meta write alone
CommitTx_metaOnly(database, writes) ==
    [database EXCEPT !.meta = View(database, writes, "meta")]

\* COMMIT: every write of the transaction becomes a committed row at once
CommitTx(database, writes) ==
    [t \in DOMAIN database |-> View(database, writes, t)]

\* another open transaction has written the row with the key of values
Locked(w, table, values) ==
    \E v \in Workers \ {w} :
        /\ run[v].pc \notin {"idle", "done"}
        /\ \E x \in run[v].writes[table] : SameKey(table, x, values)

\* lines 68-84: the stock_meta statement, run at time now
MetaValues(meta, now) ==
    [symbol |-> meta.symbol, name |-> meta.name, sector |-> meta.sector,
     currency |-> meta.currency, last_fetched |-> now]

MetaSet(meta, now) ==
    [name |-> meta.name, sector |-> meta.sector, currency |-> meta.currency,
     last_fetched |-> now]

\* lines 92-101: the stock_prices statement of one record
PriceSet(record) ==
    [open |-> record.open, high |-> record.high, low |-> record.low,
     close |-> record.close, volume |-> record.volume]

\* the body of the try block with the commit left out
StepAfter_noCommit(pc) ==
    CASE pc = "upsert_price" -> "cache"
      [] pc = "commit" -> "cache"
      [] pc = "cache" -> "return"

\* the body of the try block with the cache warmed before the commit
StepAfter_cacheFirst(pc) ==
    CASE pc = "upsert_price" -> "cache"
      [] pc = "cache" -> "commit"
      [] pc = "commit" -> "return"

\* lines 91-115: what follows the loop, the commit and the cache write
StepAfter(pc) ==
    CASE pc = "upsert_price" -> "commit"
      [] pc = "commit" -> "cache"
      [] pc = "cache" -> "return"

\* the for loop of line 91: the next record, or what follows the loop
LoopOrOn(r) ==
    IF r.i <= Len(r.result.records) THEN "upsert_price" ELSE StepAfter("upsert_price")

\* the sessions of the invocations in progress on the other workers
InProgress(w) ==
    {run[v].session : v \in {x \in Workers \ {w} : run[x].pc \notin {"idle", "done"}}}

\* the place of a commit made now among the commits of the workers' latest
\* invocations
CommitOrder(w) ==
    LET others == {run[v].order : v \in {x \in Workers \ {w} : run[x].pc # "idle"}}
    IN  1 + (CHOOSE n \in others \cup {0} : \A m \in others \cup {0} : m <= n)

\* the place of a cache write made now among the cache writes of the workers'
\* latest invocations
WarmOrder(w) ==
    LET others == {run[v].warm_order : v \in {x \in Workers \ {w} : run[x].pc # "idle"}}
    IN  1 + (CHOOSE n \in others \cup {0} : \A m \in others \cup {0} : m <= n)

\* the other workers are between invocations
OthersRest(w) == \A v \in Workers \ {w} : run[v].pc \in {"idle", "done"}

\* the rows of a symbol and its cache entry, as a reader finds them
Stored(symbol) ==
    [meta |-> {x \in db.meta : x.symbol = Upper(symbol)},
     prices |-> {x \in db.prices : x.symbol = Upper(symbol)},
     cached |-> get_cached_ohlcv(cache, clock, symbol)]

\* what an invocation leaves behind for the one that follows it
Previous(r) ==
    IF r.pc = "idle"
      THEN [outcome |-> "None"]
      ELSE [outcome |-> r.outcome, symbol |-> r.symbol, chart |-> r.chart]

\* lines 54-58: the state of an invocation when its try block is entered
Invocation(w, symbol, session) ==
    [pc |-> "fetch", symbol |-> Upper(symbol), session |-> session, open |-> TRUE,
     chart |-> "None", result |-> "None", i |-> 0, writes |-> NoWrites,
     commits |-> 0, exc |-> "None", outcome |-> "None",
     warmed |-> FALSE, cached |-> << >>,
     before |-> Stored(symbol), prev |-> Previous(run[w]),
     quiet |-> OthersRest(w) /\ (run[w].pc = "done" => run[w].quiet),
     met |-> InProgress(w), order |-> 0, warm_order |-> 0]

\* the except block is entered with exception exc
Raised(r, exc) == [r EXCEPT !.pc = "except", !.exc = exc]

\* session.close() reached only at the end of the try block
Finally_onReturn(r) ==
    [r EXCEPT !.pc = "done",
              !.open = IF r.outcome = "success" THEN FALSE ELSE @,
              !.writes = NoWrites]

\* lines 122-125: finally: session.close()
Finally(r) == [r EXCEPT !.pc = "done", !.open = FALSE, !.writes = NoWrites]

InitPipe ==
    /\ GatewayIdle
    /\ fetch = FetchIdle
    /\ DataIdle

\* lines 54-58: a worker takes a job: upper(), _ensure_tables(), SessionLocal()
Begin(w, symbol) ==
    /\ run[w].pc \in {"idle", "done"}
    /\ clock < MaxInvocations
    /\ clock' = clock + 1
    /\ run' = [v \in Workers |->
                  IF v = w THEN Invocation(w, symbol, clock + 1)
                  ELSE IF run[v].pc = "idle" THEN run[v]
                  ELSE [run[v] EXCEPT
                           !.quiet = FALSE,
                           !.met = IF run[v].pc = "done" THEN @ ELSE @ \cup {clock + 1}]]
    /\ UNCHANGED <<gatewayVars, fetch, build, db, cache, reads, puts>>

\* lines 64-66: fetcher.fetch_stock_data returns records and meta
FetchReturns(w, chart) ==
    /\ run[w].pc = "fetch"
    /\ run' = [run EXCEPT ![w] =
                  [@ EXCEPT !.pc = "upsert_meta", !.chart = chart,
                            !.result = FetchResult(run[w].symbol, chart)]]
    /\ UNCHANGED <<gatewayVars, fetch, build, db, cache, reads, clock, puts>>

\* line 64: fetcher.fetch_stock_data raises
FetchRaises(w) ==
    /\ run[w].pc = "fetch"
    /\ run' = [run EXCEPT ![w] = Raised(@, "FetchError")]
    /\ UNCHANGED <<gatewayVars, fetch, build, db, cache, reads, clock, puts>>

\* lines 68-84: session.execute(meta_stmt)
UpsertMeta(w) ==
    /\ run[w].pc = "upsert_meta"
    /\ LET r == run[w]
           values == MetaValues(r.result.meta, clock)
           done == OnConflictDoUpdate(View(db, r.writes, "meta"), "meta", values,
                                      MetaSet(r.result.meta, clock))
       IN  /\ ~Locked(w, "meta", values)
           /\ run' = [run EXCEPT ![w] =
                         IF done.ok
                           THEN [r EXCEPT !.writes = Written(r.writes, "meta", done.row),
                                          !.i = 1,
                                          !.pc = LoopOrOn([r EXCEPT !.i = 1])]
                           ELSE Raised(r, "IntegrityError")]
    /\ UNCHANGED <<gatewayVars, fetch, build, db, cache, reads, clock, puts>>

\* lines 91-102: session.execute(price_stmt) for the next record
UpsertPrice(w) ==
    /\ run[w].pc = "upsert_price"
    /\ LET r == run[w]
           record == r.result.records[r.i]
           done == OnConflictDoUpdate(View(db, r.writes, "prices"), "prices", record,
                                      PriceSet(record))
       IN  /\ ~Locked(w, "prices", record)
           /\ run' = [run EXCEPT ![w] =
                         IF done.ok
                           THEN [r EXCEPT !.writes = Written(r.writes, "prices", done.row),
                                          !.i = r.i + 1,
                                          !.pc = LoopOrOn([r EXCEPT !.i = r.i + 1])]
                           ELSE Raised(r, "IntegrityError")]
    /\ UNCHANGED <<gatewayVars, fetch, build, db, cache, reads, clock, puts>>

\* lines 84, 102: the database fails a statement
ExecuteFails(w) ==
    /\ run[w].pc \in {"upsert_meta", "upsert_price"}
    /\ run' = [run EXCEPT ![w] = Raised(@, "ExecuteError")]
    /\ UNCHANGED <<gatewayVars, fetch, build, db, cache, reads, clock, puts>>

\* line 104: session.commit()
Commit(w) ==
    /\ run[w].pc = "commit"
    /\ db' = CommitTx(db, run[w].writes)
    /\ run' = [run EXCEPT ![w] =
                  [@ EXCEPT !.writes = NoWrites, !.commits = @ + 1,
                            !.order = CommitOrder(w),
                            !.pc = StepAfter("commit")]]
    /\ UNCHANGED <<gatewayVars, fetch, build, cache, reads, clock, puts>>

\* line 104: session.commit() raises, nothing is committed
CommitFails(w) ==
    /\ run[w].pc = "commit"
    /\ run' = [run EXCEPT ![w] = Raised(@, "CommitError")]
    /\ UNCHANGED <<gatewayVars, fetch, build, db, cache, reads, clock, puts>>

\* line 108: cache_ohlcv(symbol, records)
CacheWrite(w) ==
    /\ run[w].pc = "cache"
    /\ cache' = cache_ohlcv(cache, clock, run[w].symbol, run[w].result.records)
    /\ puts' = Noted(puts, clock, run[w].symbol, run[w].result.records)
    /\ run' = [run EXCEPT ![w] =
                  [@ EXCEPT !.warmed = TRUE,
                            !.warm_order = WarmOrder(w),
                            !.cached = Serialized(run[w].result.records),
                            !.pc = StepAfter("cache")]]
    /\ UNCHANGED <<gatewayVars, fetch, build, db, reads, clock>>

\* line 108: cache_ohlcv raises (Redis is down)
CacheFails(w) ==
    /\ run[w].pc = "cache"
    /\ run' = [run EXCEPT ![w] = Raised(@, "CacheError")]
    /\ UNCHANGED <<gatewayVars, fetch, build, db, cache, reads, clock, puts>>

\* lines 110-115: return the summary
Return(w) ==
    /\ run[w].pc = "return"
    /\ run' = [run EXCEPT ![w] = [@ EXCEPT !.pc = "finally", !.outcome = "success"]]
    /\ UNCHANGED <<gatewayVars, fetch, build, db, cache, reads, clock, puts>>

\* lines 117-120: except Exception: session.rollback(); raise
Except(w) ==
    /\ run[w].pc = "except"
    /\ run' = [run EXCEPT ![w] =
                  [@ EXCEPT !.pc = "finally", !.writes = NoWrites,
                            !.outcome = "raised"]]
    /\ UNCHANGED <<gatewayVars, fetch, build, db, cache, reads, clock, puts>>

\* lines 122-125: finally: session.close()
Close(w) ==
    /\ run[w].pc = "finally"
    /\ run' = [run EXCEPT ![w] = Finally(@)]
    /\ UNCHANGED <<gatewayVars, fetch, build, db, cache, reads, clock, puts>>

NextPipe ==
    \/ \E w \in Workers, symbol \in PipeSymbols : Begin(w, symbol)
    \/ \E w \in Workers, chart \in StoredCharts : FetchReturns(w, chart)
    \/ \E w \in Workers : FetchRaises(w)
    \/ \E w \in Workers : UpsertMeta(w)
    \/ \E w \in Workers : UpsertPrice(w)
    \/ \E w \in Workers : ExecuteFails(w)
    \/ \E w \in Workers : Commit(w)
    \/ \E w \in Workers : CommitFails(w)
    \/ \E w \in Workers : CacheWrite(w)
    \/ \E w \in Workers : CacheFails(w)
    \/ \E w \in Workers : Return(w)
    \/ \E w \in Workers : Except(w)
    \/ \E w \in Workers : Close(w)

SpecPipe == InitPipe /\ [][NextPipe]_vars

(***************************************************************************)
(* Status composition (C1 - C5)                                            *)
(***************************************************************************)
Answered(c) == req[c].pc = "done"

DataJob(c) == jobs[req[c].meta.sub_tasks["data"]]

Requested(c) == {req[c].meta.analyses[i] : i \in 1..Len(req[c].meta.analyses)}

\* the analysis has a recorded sub-job that reports success
AnalysisSucceeded(c, a) ==
    /\ a \in DOMAIN req[c].meta.sub_tasks
    /\ jobs[req[c].meta.sub_tasks[a]].state = "SUCCESS"

\* the analysis is still pending: no sub-job recorded, or one not yet finished
AnalysisPending(c, a) ==
    \/ a \notin DOMAIN req[c].meta.sub_tasks
    \/ jobs[req[c].meta.sub_tasks[a]].state \notin READY_STATES

\* C1: a get_task answer given while the data job is still pending or running
\* (no read of the call can have seen it finished) has status fetching_data,
\* whatever analyses the task requested.
C1_DataPendingIsFetching ==
    \A c \in Clients :
        Answered(c) /\ DataJob(c).state \notin READY_STATES
            => req[c].response.status = "fetching_data"

C1_Witness ==
    \E c \in Clients :
        /\ Answered(c)
        /\ DataJob(c).state = "STARTED"
        /\ Requested(c) # {}
        /\ req[c].response.status = "fetching_data"

\* C2: a get_task call that finds the data job failed answers failed, with the
\* job's error string under results["data"], results holding the "data" entry
\* alone, and the data job the only job it looked up.
C2_DataFailedIsFailed ==
    \A c \in Clients :
        Answered(c) /\ req[c].state0 = "FAILURE"
            => /\ req[c].response.status = "failed"
               /\ req[c].response.results =
                      "data" :> [status |-> "failure",
                                 error |-> Str(DataJob(c).result)]
               /\ req[c].lookups = {"data"}

C2_Witness ==
    \E c \in Clients :
        /\ Answered(c)
        /\ req[c].state0 = "FAILURE"
        /\ Requested(c) # {}
        /\ req[c].response.status = "failed"
        /\ req[c].response.results["data"].error = "No chart data returned"

\* C3: complete is answered only for a task whose data job succeeded and whose
\* requested analyses all have a recorded sub-job reporting success.
C3_CompleteOnlyIfAllSucceeded ==
    \A c \in Clients :
        Answered(c) /\ req[c].response.status = "complete"
            => /\ DataJob(c).state = "SUCCESS"
               /\ \A a \in Requested(c) : AnalysisSucceeded(c, a)

C3_Witness ==
    \E c \in Clients :
        /\ Answered(c)
        /\ req[c].response.status = "complete"
        /\ req[c].response.results["data"] = [status |-> "success", result |-> "summary"]

\* C4: a get_task call that finds the data job succeeded, for a task whose
\* requested analyses (possibly none) all report success, answers complete.
C4_AllSucceededIsComplete ==
    \A c \in Clients :
        Answered(c) /\ req[c].state0 = "SUCCESS"
                    /\ (\A a \in Requested(c) : AnalysisSucceeded(c, a))
            => req[c].response.status = "complete"

C4_Witness ==
    \E c \in Clients :
        /\ Answered(c)
        /\ req[c].state0 = "SUCCESS"
        /\ Requested(c) = {}
        /\ DOMAIN req[c].response.results = {"data"}
        /\ req[c].response.status = "complete"

\* C5: a get_task call that finds the data job succeeded, for a task with a
\* requested analysis still pending, answers analyzing and reports every
\* pending analysis with status pending.
C5_PendingAnalysisIsAnalyzing ==
    \A c \in Clients :
        Answered(c) /\ req[c].state0 = "SUCCESS"
                    /\ (\E a \in Requested(c) : AnalysisPending(c, a))
            => /\ req[c].response.status = "analyzing"
               /\ \A a \in Requested(c) :
                    AnalysisPending(c, a)
                        => /\ a \in DOMAIN req[c].response.results
                           /\ req[c].response.results[a].status = "pending"

C5_Witness ==
    \E c \in Clients :
        /\ Answered(c)
        /\ req[c].state0 = "SUCCESS"
        /\ Requested(c) = {"sentiment", "forecast"}
        /\ req[c].response.status = "analyzing"
        /\ req[c].response.results["forecast"] = [status |-> "pending"]

(***************************************************************************)
(* Unknown task id (C6), what the call stores (C7)                         *)
(***************************************************************************)
\* client c starts a get_task call in this step
Starts(c) == req[c].pc \in Resting /\ req'[c] # req[c]

\* C6: a get_task call for an id with no Task record ends not-found: it looks
\* up no job, and leaves the Task store and the job queue as they were.
C6_UnknownTaskNotFound ==
    [][\A c \in Clients :
          Starts(c) /\ req'[c].task_id \notin DOMAIN taskStore
              => /\ req'[c].pc = "notfound"
                 /\ req'[c].lookups = {}
                 /\ taskStore' = taskStore
                 /\ jobs' = jobs]_vars

\* not-found for an id whose record has expired
C6_Witness ==
    \E c \in Clients :
        /\ req[c].pc = "notfound"
        /\ req[c].task_id < nextId
        /\ req[c].task_id \notin DOMAIN taskStore

\* client c's get_task call answers in this step
Answers(c) == req[c].pc = "save" /\ req'[c].pc = "done"

\* C7 as stated: when get_task answers, the stored record holds the status and
\* the per-sub-job results of the answer.
C7_StoresStatusAndResults ==
    [][\A c \in Clients :
          Answers(c)
              => LET stored == taskStore'[req'[c].task_id].meta
                 IN  /\ stored.status = req'[c].response.status
                     /\ "results" \in DOMAIN stored
                     /\ stored.results = req'[c].response.results]_vars

\* C7 as the code has it: when get_task answers, the stored record holds the
\* status of the answer; the per-sub-job results are answered, not stored.
C7_StoresStatus ==
    [][\A c \in Clients :
          Answers(c)
              => /\ req'[c].task_id \in DOMAIN taskStore'
                 /\ LET stored == taskStore'[req'[c].task_id].meta
                    IN  /\ stored.status = req'[c].response.status
                        /\ DOMAIN stored = DOMAIN req[c].meta]_vars

\* an answer other than the status the record was created with
C7_Witness ==
    \E c \in Clients :
        /\ Answered(c)
        /\ req[c].task_id \in DOMAIN taskStore
        /\ req[c].response.status = "analyzing"
        /\ taskStore[req[c].task_id].meta.status = "analyzing"

(***************************************************************************)
(* The fetch's retry policy (C8 - C10)                                     *)
(***************************************************************************)
FetchEnded == fetch.pc \in {"returned", "raised"}

\* rate-limited, or no response at all
Transient(r) ==
    \/ r.kind = "no_response"
    \/ r.kind = "response" /\ r.status_code = 429

AllTransient ==
    \A i \in 1..fetch.max_retries : Transient(fetch.upstream[i])

\* an HTTP error status other than 429
NonRetryable(r) ==
    r.kind = "response" /\ RaisesForStatus(r.status_code) /\ r.status_code # 429

\* a 200 whose chart result array is empty
EmptyResult(r) ==
    r.kind = "response" /\ ~RaisesForStatus(r.status_code) /\ r.result = "empty"

\* the fetch stopped, raising, on its i-th request, having waited before each
\* request but the first
RaisedAtRequest(i) ==
    /\ fetch.pc = "raised"
    /\ fetch.requests = i
    /\ fetch.sleeps = i - 1

C8_Bounded ==
    /\ fetch.pc \in {"sleep", "request", "returned", "raised"}
    /\ fetch.requests <= fetch.max_retries
    /\ fetch.pc \in {"sleep", "request"} => fetch.requests < fetch.max_retries
    /\ fetch.pc = "request" => fetch.sleeps = fetch.requests
    /\ fetch.pc # "request" => fetch.sleeps = fetch.requests - 1
    /\ fetch.waited = fetch.sleeps * RetryDelay
    /\ AllTransient /\ FetchEnded
          => /\ RaisedAtRequest(fetch.max_retries)
             /\ fetch.exc \in {"HTTPError", "ConnectionError"}

\* C8: for every attempt cap N >= 1 and every sequence of upstream answers the
\* fetch makes at most N requests and ends, returning or raising; when all N
\* answers are rate-limit or no-response errors it makes exactly N requests,
\* waits the delay N-1 times, once before each request but the first, and raises.
C8_BoundedRetry == []C8_Bounded /\ <>FetchEnded

C8_Witness ==
    /\ fetch.pc = "raised"
    /\ fetch.max_retries = DefaultMaxRetries
    /\ \A i \in 1..fetch.max_retries : fetch.upstream[i] = HttpResponse(429, "none")
    /\ fetch.requests = 3
    /\ fetch.waited = 60

\* C9: an empty chart result array makes the fetch raise on that very attempt,
\* with no request and no wait after it.
C9_EmptyFailsAtOnce ==
    \A i \in 1..fetch.requests :
        EmptyResult(fetch.upstream[i]) => RaisedAtRequest(i)

\* C10: an HTTP error status other than 429 makes the fetch raise the HTTPError
\* on that very attempt, after that attempt's one request, with no request and
\* no wait after it, whatever attempts remain.
C10_HttpErrorFailsAtOnce ==
    \A i \in 1..fetch.requests :
        NonRetryable(fetch.upstream[i])
            => RaisedAtRequest(i) /\ fetch.exc = "HTTPError"

C10_Witness ==
    /\ fetch.max_retries = DefaultMaxRetries
    /\ fetch.upstream[1] = HttpResponse(429, "none")
    /\ fetch.upstream[2] = HttpResponse(500, "none")
    /\ fetch.pc = "raised"
    /\ fetch.requests = 2

(***************************************************************************)
(* Gap filtering (C11)                                                     *)
(***************************************************************************)
\* timestamp i of the chart carries all five values
Complete(chart, i) ==
    \A k \in Fields : chart.quote[k][i] # Null

\* the complete timestamps among the first n
CompleteUpTo(chart, n) == {i \in 1..n : Complete(chart, i)}

\* the k-th complete timestamp of the chart
KthComplete(chart, k) ==
    CHOOSE i \in 1..Len(chart.timestamp) :
        Complete(chart, i) /\ Cardinality(CompleteUpTo(chart, i)) = k

\* C11: the records built from a chart are, in timestamp order, one record for
\* each timestamp whose open, high, low, close and volume are all present, and
\* none for any other timestamp; after each pass of the loop this is so for the
\* timestamps passed.
C11_GapFiltering ==
    build.pc \in {"loop", "returned"}
        => LET chart == build.chart
               done == build.i - 1
           IN  /\ Len(build.records) = Cardinality(CompleteUpTo(chart, done))
               /\ \A k \in 1..Len(build.records) :
                    LET i == KthComplete(chart, k)
                    IN  /\ build.records[k].date = UtcDate(chart.timestamp[i])
                        /\ build.records[k].volume = chart.quote["volume"][i]
                        /\ build.records[k].close = Round4(chart.quote["close"][i])

\* three timestamps, the second with a null volume and nothing else missing:
\* two records, of the first and the third day
C11_Witness ==
    /\ build.pc = "returned"
    /\ Len(build.chart.timestamp) = 3
    /\ \A i \in {1, 3} : Complete(build.chart, i)
    /\ build.chart.quote["volume"][2] = Null
    /\ \A k \in Fields \ {"volume"} : build.chart.quote[k][2] # Null
    /\ Len(build.records) = 2
    /\ build.records[1].date = [date |-> 0]
    /\ build.records[2].date = [date |-> 2]

(***************************************************************************)
(* Cache expiry (C17)                                                      *)
(***************************************************************************)
\* the reader's get came less than CACHE_TTL after the latest put on its key
WithinTtl(r) ==
    reads[r].put_at # Null /\ reads[r].at - reads[r].put_at < CACHE_TTL

\* a get_cached_ohlcv call hits exactly when its key was put less than
\* CACHE_TTL before it
C17_HitWithinTtl ==
    \A r \in Readers :
        reads[r].pc = "done" => (reads[r].result.hit <=> WithinTtl(r))

\* a step that gets changes neither the entries nor their expiry
C17_GetKeepsExpiry ==
    \A r \in Readers : reads'[r] # reads[r] => cache' = cache

\* C17: an entry written by cache_ohlcv is returned by get_cached_ohlcv only
\* until CACHE_TTL has passed since the latest cache_ohlcv for that symbol; a
\* get after that is a miss, and no get extends an entry's lifetime.
C17_CacheExpiry == []C17_HitWithinTtl /\ [][C17_GetKeepsExpiry]_vars

\* a miss on a symbol that was cached and not refreshed within CACHE_TTL
C17_Witness ==
    \E r \in Readers :
        /\ reads[r].pc = "done"
        /\ ~reads[r].result.hit
        /\ reads[r].put_at # Null
        /\ reads[r].at - reads[r].put_at >= CACHE_TTL

(***************************************************************************)
(* Task creation (C18)                                                     *)
(***************************************************************************)
\* every stored record names, under "data", a job that was submitted
C18_DataEntryPresent ==
    \A t \in DOMAIN taskStore :
        /\ "data" \in DOMAIN taskStore[t].meta.sub_tasks
        /\ Submitted(taskStore[t].meta.sub_tasks["data"])

\* an analyze step (the one step that issues a task id) stores under that id
\* a record with status fetching_data and the "data" entry alone, and leaves
\* the job it submitted untouched by any worker
C18_CreatedFetching ==
    nextId' # nextId
        => /\ nextId \in DOMAIN taskStore'
           /\ LET meta == taskStore'[nextId].meta
              IN  /\ meta.status = "fetching_data"
                  /\ DOMAIN meta.sub_tasks = {"data"}
                  /\ meta.sub_tasks["data"] < nextId'
                  /\ jobs'[meta.sub_tasks["data"]].state = "PENDING"

\* C18: every Task record in the store has a "data" entry in sub_tasks naming
\* a submitted job; the record analyze writes has status fetching_data and
\* only the "data" entry, and analyze ends with the job still pending, without
\* a worker step on it.
C18_CreateTask == []C18_DataEntryPresent /\ [][C18_CreatedFetching]_vars

\* a record as analyze wrote it, its job not yet taken by a worker, while the
\* job of an earlier task is running
C18_Witness ==
    \E t, u \in DOMAIN taskStore :
        /\ taskStore[t].meta.status = "fetching_data"
        /\ DOMAIN taskStore[t].meta.sub_tasks = {"data"}
        /\ jobs[taskStore[t].meta.sub_tasks["data"]].state = "PENDING"
        /\ jobs[taskStore[u].meta.sub_tasks["data"]].state = "STARTED"

(***************************************************************************)
(* The fetch-and-persist job (C12 - C16, C19, C20)                         *)
(***************************************************************************)
Ended(w) == run[w].pc = "done"

Succeeded(w) == Ended(w) /\ run[w].outcome = "success"

\* the exceptions of the fetch, the upserts and the commit
BeforeCommitted == {"FetchError", "ExecuteError", "IntegrityError", "CommitError"}

Unique(rows, table) == \A x, y \in rows : SameKey(table, x, y) => x = y

\* the record of the batch whose values a date ends with: the last one of it
\* among the first n records
LastOf(records, n, j) ==
    records[CHOOSE k \in 1..n :
                /\ records[k].date = records[j].date
                /\ \A m \in (k + 1)..n : records[m].date # records[j].date]

\* rows holds, for each of the first n records, a row with the values of the
\* last record of its date
HoldsBatch(rows, records, n) ==
    \A j \in 1..n :
        \E x \in rows :
            /\ SameKey("prices", x, records[j])
            /\ PriceSet(x) = PriceSet(LastOf(records, n, j))

\* the invocation of w succeeded right after a successful one for the same
\* symbol that got the same response, no other invocation in between or aside
RanTwice(w) ==
    /\ Succeeded(w)
    /\ run[w].quiet
    /\ run[w].prev.outcome = "success"
    /\ run[w].prev.symbol = run[w].symbol
    /\ run[w].prev.chart = run[w].chart

\* C12: when fetch_stock_data runs twice in sequence for one symbol with the
\* same upstream response, the StockPrice rows of the symbol (keys and values,
\* one row per key) and the cache content of the symbol after the second run
\* are those after the first.
C12_Idempotent ==
    \A w \in Workers :
        RanTwice(w)
            => /\ Stored(run[w].symbol).prices = run[w].before.prices
               /\ Stored(run[w].symbol).cached = run[w].before.cached
               /\ Unique(db.prices, "prices")

\* a second run after a first that stored rows and warmed the cache
C12_Witness ==
    \E w \in Workers :
        /\ RanTwice(w)
        /\ run[w].before.prices # {}
        /\ run[w].before.cached.hit

\* the statements of w's open transaction have upserted its first n records
InTransaction(w) == run[w].pc \in {"upsert_price", "commit"}

\* C13: the store never holds two StockPrice rows of one (symbol, date) or two
\* StockMeta rows of one symbol; an upsert of a pair that exists already, in
\* the store or earlier in the same batch, overwrites the row's OHLCV values
\* and raises no error.
C13_UniqueRows ==
    /\ Unique(db.meta, "meta")
    /\ Unique(db.prices, "prices")
    /\ \A w \in Workers :
           run[w].pc # "idle"
               => /\ run[w].exc # "IntegrityError"
                  /\ Unique(View(db, run[w].writes, "meta"), "meta")
                  /\ Unique(View(db, run[w].writes, "prices"), "prices")
                  /\ InTransaction(w)
                         => HoldsBatch(View(db, run[w].writes, "prices"),
                                       run[w].result.records, run[w].i - 1)

\* a batch of two records of one date was upserted over a committed row of
\* that date with other values
C13_Witness ==
    \E w \in Workers :
        /\ run[w].pc = "commit"
        /\ Len(run[w].result.records) = 2
        /\ run[w].result.records[1].date = run[w].result.records[2].date
        /\ \E x \in db.prices :
               /\ SameKey("prices", x, run[w].result.records[2])
               /\ PriceSet(x) # PriceSet(run[w].result.records[2])

\* a step changes the committed rows only as the commit of one invocation,
\* which applies its stock_meta row and its whole batch together
CommitsWhole(w) ==
    /\ run[w].pc = "commit"
    /\ run'[w].commits = run[w].commits + 1
    /\ run'[w].exc = "None"
    /\ HoldsBatch(db'.prices, run[w].result.records, Len(run[w].result.records))
    /\ \E x \in db'.meta :
           /\ x.symbol = run[w].symbol
           /\ x.name = run[w].result.meta.name
    /\ \A t \in {"meta", "prices"} :
           {x \in db'[t] : x.symbol # run[w].symbol}
               = {x \in db[t] : x.symbol # run[w].symbol}

C14_NoPartialWrite == db' # db => \E w \in Workers : CommitsWhole(w)

\* an invocation in which the fetch, an upsert or the commit raised committed
\* nothing, dropped its pending writes and ends raised; with no other
\* invocation around, the rows of the symbol are those from before it
C14_FailureLeavesRows ==
    \A w \in Workers :
        run[w].pc # "idle" /\ run[w].exc \in BeforeCommitted
            => /\ run[w].commits = 0
               /\ run[w].pc \in {"finally", "done"}
                      => run[w].outcome = "raised" /\ run[w].writes = NoWrites
               /\ Ended(w) /\ run[w].quiet
                      => /\ Stored(run[w].symbol).meta = run[w].before.meta
                         /\ Stored(run[w].symbol).prices = run[w].before.prices

\* C14: if the fetch, an upsert or the commit of an invocation fails, its
\* transaction is rolled back, the committed StockMeta and StockPrice rows are
\* those from before it and the job ends in failure; the committed rows only
\* ever change by the whole of one invocation's upserts at once.
C14_AllOrNothing == []C14_FailureLeavesRows /\ [][C14_NoPartialWrite]_vars

\* an invocation that failed after it had upserted the metadata and one
\* record, over rows an earlier invocation committed
C14_Witness ==
    \E w \in Workers :
        /\ Ended(w)
        /\ run[w].quiet
        /\ run[w].exc = "ExecuteError"
        /\ run[w].i = 2
        /\ run[w].before.prices # {}
        /\ PriceSet(run[w].result.records[1])
               \notin {PriceSet(x) : x \in run[w].before.prices}

\* C15: the session an invocation opened is closed when the invocation has
\* ended, however it ended: with its summary, or with the exception of the
\* fetch, an upsert, the commit or the cache write; until then it is open.
C15_SessionReleased ==
    \A w \in Workers :
        run[w].pc # "idle"
            => /\ Ended(w) => ~run[w].open /\ run[w].outcome \in {"success", "raised"}
               /\ ~Ended(w) => run[w].open

\* an invocation ended by a failed cache write, another by a failed commit
C15_Witness ==
    \E w, v \in Workers :
        /\ Ended(w) /\ run[w].exc = "CacheError" /\ ~run[w].open
        /\ Ended(v) /\ run[v].exc = "CommitError" /\ ~run[v].open

\* two invocations never share a session
OwnSession ==
    \A w, v \in Workers :
        w # v /\ run[w].pc # "idle" /\ run[v].pc # "idle"
            => run[w].session # run[v].session

\* C16 as stated: every invocation opens its own session and, by its end, has
\* committed it exactly once.
C16_CommitsExactlyOnce ==
    /\ OwnSession
    /\ \A w \in Workers : Ended(w) => run[w].commits = 1

\* C16, corrected: every invocation opens its own session and commits it at
\* most once: once when the fetch, the upserts and the commit went through,
\* never when one of them raised.
C16_CommitsAtMostOnce ==
    /\ OwnSession
    /\ \A w \in Workers :
           run[w].pc # "idle"
               => /\ run[w].commits <= 1
                  /\ run[w].pc \in {"cache", "return"} => run[w].commits = 1
                  /\ Ended(w)
                         => (run[w].commits = 1 <=> run[w].exc \notin BeforeCommitted)

\* one invocation ended with its one commit, another ended without any
C16_Witness ==
    \E w, v \in Workers :
        /\ Succeeded(w) /\ run[w].commits = 1
        /\ Ended(v) /\ run[v].exc = "FetchError" /\ run[v].commits = 0

\* an invocation has warmed the cache only after its commit, and with the
\* records it upserted; one in which the fetch, an upsert or the commit
\* raised has not warmed it
C19_WarmedAfterCommit ==
    \A w \in Workers :
        run[w].pc # "idle"
            => /\ run[w].warmed
                   => /\ run[w].commits = 1
                      /\ run[w].cached = Serialized(run[w].result.records)
               /\ run[w].exc \in BeforeCommitted => ~run[w].warmed

\* a step changes the cache only as the cache write of an invocation that has
\* committed, and the entry holds the records whose rows it committed
C19_WriteFollowsCommit ==
    cache' # cache
        => \E w \in Workers :
               /\ run[w].pc = "cache"
               /\ run[w].commits = 1
               /\ run'[w].warmed
               /\ cache'[_make_key(run[w].symbol)].value
                      = Serialized(run[w].result.records)
               /\ \A j \in 1..Len(run[w].result.records) :
                      \E x \in db.prices : SameKey("prices", x, run[w].result.records[j])

\* C19: an invocation writes the cache only after its transaction committed:
\* where the fetch, an upsert or the commit failed it does not write the
\* cache, and what it writes is the batch of records it committed.
C19_CacheAfterCommit == []C19_WarmedAfterCommit /\ [][C19_WriteFollowsCommit]_vars

\* one invocation has warmed the cache after its commit while the commit of
\* another failed, which left the cache alone
C19_Witness ==
    \E w, v \in Workers :
        /\ run[w].pc = "return" /\ run[w].warmed /\ run[w].commits = 1
        /\ Ended(v) /\ run[v].exc = "CommitError" /\ ~run[v].warmed

\* C20: an invocation whose cache write failed after the commit still ends
\* with success and its summary.
C20_CacheFailureKeepsSuccess ==
    \A w \in Workers :
        Ended(w) /\ run[w].exc = "CacheError" => run[w].outcome = "success"

(***************************************************************************)
(* Cache round trip (C21)                                                  *)
(***************************************************************************)
\* a get within CACHE_TTL of the latest put for its symbol, in any spelling,
\* returns the records of that put, in order, each date a date value again
C21_SameRecords ==
    \A r \in Readers :
        reads[r].pc = "done" /\ WithinTtl(r)
            => /\ reads[r].result.hit
               /\ reads[r].result.records = reads[r].put.records
               /\ \A i \in 1..Len(reads[r].result.records) :
                      /\ IsDate(reads[r].result.records[i].date)
                      /\ reads[r].result.records[i].symbol = Upper(reads[r].symbol)

\* a put changes the entry of its uppercased symbol and no other
C21_OwnEntry ==
    \A k \in DOMAIN cache' :
        (k \notin DOMAIN cache \/ cache'[k] # cache[k])
            => /\ k[2] \in DOMAIN puts'
               /\ puts'[k[2]].at = clock
               /\ cache'[k].value = Serialized(puts'[k[2]].records)

\* C21: a get after a put and before the expiry returns the records of the
\* put in the same order, with the dates restored from their ISO strings; the
\* entry is addressed by the uppercased symbol, so a put and a get that spell
\* one symbol in different case meet in one entry, and symbols that differ
\* when uppercased never share one.
C21_RoundTrip == []C21_SameRecords /\ [][C21_OwnEntry]_vars

\* a hit of two records for a symbol that was put in another spelling, while
\* another symbol holds other records
C21_Witness ==
    \E r \in Readers :
        /\ reads[r].pc = "done"
        /\ reads[r].result.hit
        /\ Len(reads[r].result.records) = 2
        /\ reads[r].put.symbol # reads[r].symbol
        /\ \E u \in DOMAIN puts :
               u # Upper(reads[r].symbol) /\ puts[u].records # reads[r].put.records

(***************************************************************************)
(* Statuses over successive calls (C22)                                    *)
(***************************************************************************)
\* the statuses a call may answer after an earlier call answered status
NotBefore(status) ==
    CASE status = "fetching_data" -> {"fetching_data", "analyzing", "complete", "failed"}
      [] status = "analyzing" -> {"analyzing", "complete"}
      [] status = "complete" -> {"complete"}
      [] status = "failed" -> {"failed"}

\* C22: with jobs that only move pending -> running -> success or failure,
\* a get_task call that starts after complete or failed was answered for the
\* task answers the same status, and no call answers a status that lies
\* before an earlier answer on fetching_data -> analyzing -> complete.
C22_StatusNeverGoesBack ==
    [][\A c \in Clients :
          Answers(c)
              => \A status \in req[c].earlier :
                     req'[c].response.status \in NotBefore(status)]_vars

\* a call about to answer complete for a task that was answered complete
\* before, while another task is still fetching
C22_Witness ==
    \E c \in Clients :
        /\ req[c].pc = "save"
        /\ req[c].earlier = {"complete"}
        /\ req[c].overall_status = "complete"
        /\ \E t \in DOMAIN taskStore :
               t # req[c].task_id /\ taskStore[t].meta.status = "fetching_data"

(***************************************************************************)
(* Concurrent invocations for one symbol (C23, C27)                        *)
(***************************************************************************)
\* the latest invocations of w and v ran at the same time for one symbol, with
\* no third one in progress beside them, and both succeeded, w's commit
\* before v's
BothSucceeded(w, v) ==
    /\ w # v
    /\ Succeeded(w) /\ Succeeded(v)
    /\ run[w].symbol = run[v].symbol
    /\ run[w].met = {run[v].session}
    /\ run[v].met = {run[w].session}
    /\ run[w].order < run[v].order

Dates(records) == {records[j].date : j \in 1..Len(records)}

\* w waits for the row lock of another open transaction
Blocked(w) ==
    \/ /\ run[w].pc = "upsert_meta"
       /\ Locked(w, "meta", MetaValues(run[w].result.meta, clock))
    \/ /\ run[w].pc = "upsert_price"
       /\ Locked(w, "prices", run[w].result.records[run[w].i])

\* C23: after two concurrent invocations for one symbol that both succeeded,
\* the store has one StockPrice row for every date of either batch, a date of
\* both batches with the values of the invocation that committed last; no
\* invocation gets an integrity error, nor do two ever wait for each other.
C23_Converges ==
    /\ \A w, v \in Workers :
           BothSucceeded(w, v)
               => LET first == run[w].result.records
                      last == run[v].result.records
                      rows == Stored(run[w].symbol).prices
                  IN  /\ Unique(rows, "prices")
                      /\ Dates(first) \cup Dates(last) \subseteq {x.date : x \in rows}
                      /\ HoldsBatch(rows, last, Len(last))
                      /\ \A j \in 1..Len(first) :
                             first[j].date \notin Dates(last)
                                 => \E x \in rows :
                                        /\ SameKey("prices", x, first[j])
                                        /\ PriceSet(x) = PriceSet(LastOf(first, Len(first), j))
    /\ \A w \in Workers : run[w].pc # "idle" => run[w].exc # "IntegrityError"
    /\ ~\A w \in Workers : Blocked(w)

\* two concurrent invocations succeeded, the first to commit with a second
\* date the last has not, and with other values on the date they share
C23_Witness ==
    \E w, v \in Workers :
        /\ BothSucceeded(w, v)
        /\ Dates(run[w].result.records) \ Dates(run[v].result.records) # {}
        /\ \E j \in 1..Len(run[w].result.records), k \in 1..Len(run[v].result.records) :
               /\ run[w].result.records[j].date = run[v].result.records[k].date
               /\ PriceSet(LastOf(run[w].result.records, Len(run[w].result.records), j))
                      # PriceSet(LastOf(run[v].result.records, Len(run[v].result.records), k))

\* the cache entry of the symbol holds the records of v's batch
CacheHolds(v) ==
    LET got == get_cached_ohlcv(cache, clock, run[v].symbol)
    IN  got.hit /\ got.records = run[v].result.records

\* C27 as stated: when two concurrent invocations for one symbol have both
\* succeeded, the cache entry of the symbol holds the records of the
\* invocation that committed last.
C27_CacheOfLastCommit ==
    \A w, v \in Workers : BothSucceeded(w, v) => CacheHolds(v)

\* C27, corrected: when two concurrent invocations for one symbol have both
\* succeeded, the cache entry of the symbol holds the records of the one that
\* wrote the cache last, which is the last committer only if the cache writes
\* came in the order of the commits.
C27_CacheOfLastWrite ==
    \A w, v \in Workers :
        BothSucceeded(w, v)
            => IF run[w].warm_order < run[v].warm_order
                 THEN CacheHolds(v)
                 ELSE CacheHolds(w)

\* both succeeded, the first committer wrote the cache last, and the cache
\* has its records while the store has the last committer's values
C27_Witness ==
    \E w, v \in Workers :
        /\ BothSucceeded(w, v)
        /\ run[v].warm_order < run[w].warm_order
        /\ CacheHolds(w) /\ ~CacheHolds(v)
        /\ HoldsBatch(db.prices, run[v].result.records, Len(run[v].result.records))

(***************************************************************************)
(* The effect of get_task (C24)                                            *)
(***************************************************************************)
\* the fields of a Task record other than its status
Fixed == {"symbol", "analyses", "forecast_timeframe", "user_id", "sub_tasks"}

\* a step of client c's get_task call
Polls(c) == req'[c] # req[c]

\* the step writes the record of c's task with nothing but the status changed
\* from what the call loaded and from what the store holds
WritesStatusOnly(c) ==
    LET t == req[c].task_id
    IN  /\ Answers(c)
        /\ t \in DOMAIN taskStore'
        /\ DOMAIN taskStore'[t].meta = Fixed \cup {"status"}
        /\ \A f \in Fixed :
               /\ taskStore'[t].meta[f] = req[c].meta[f]
               /\ t \in DOMAIN taskStore => taskStore'[t].meta[f] = taskStore[t].meta[f]
        /\ \A k \in (DOMAIN taskStore') \ {t} :
               k \in DOMAIN taskStore /\ taskStore'[k] = taskStore[k]

\* C24: a get_task call changes, of the stored records, only the status of
\* its own task's record, the other fields written back as they were; it
\* submits no job, so jobs are submitted by analyze alone, one per call.
C24_NarrowEffect ==
    [][\A c \in Clients :
          Polls(c)
              => /\ jobs' = jobs
                 /\ nextId' = nextId
                 /\ taskStore' # taskStore => WritesStatusOnly(c)]_vars

\* a call has answered failed for a task with a requested analysis, and the
\* record holds that status and the data entry alone
C24_Witness ==
    \E c \in Clients :
        /\ Answered(c)
        /\ req[c].task_id \in DOMAIN taskStore
        /\ taskStore[req[c].task_id].meta.status = "failed"
        /\ taskStore[req[c].task_id].meta.analyses # << >>
        /\ DOMAIN taskStore[req[c].task_id].meta.sub_tasks = {"data"}

(***************************************************************************)
(* Task expiry (C25)                                                       *)
(***************************************************************************)
\* a record is in the store for less than _TASK_TTL since its last write,
\* and its key's TTL is what is left of _TASK_TTL
C25_LivesFromLastWrite ==
    \A t \in DOMAIN taskStore :
        /\ taskStore[t].idle < _TASK_TTL
        /\ taskStore[t].ttl = _TASK_TTL - taskStore[t].idle

\* an answering get_task and an analyze leave their record with the whole
\* _TASK_TTL ahead; a record leaves the store only in a step that writes
\* nothing and takes the time since its last write to _TASK_TTL or beyond
C25_FreshOnWrite ==
    /\ \A c \in Clients :
           Answers(c)
               => /\ req[c].task_id \in DOMAIN taskStore'
                  /\ taskStore'[req[c].task_id].ttl = _TASK_TTL
                  /\ taskStore'[req[c].task_id].idle = 0
    /\ nextId' # nextId => taskStore'[nextId].ttl = _TASK_TTL
    /\ \A t \in (DOMAIN taskStore) \ (DOMAIN taskStore') :
           /\ taskStore[t].idle + TickSeconds >= _TASK_TTL
           /\ req' = req /\ nextId' = nextId

\* C25: the expiry of a Task record counts from its last write: every
\* answering get_task rewrites it with the whole 86400 s again, so a task
\* polled more often than that stays, and a task is gone only once 86400 s
\* have passed with neither analyze nor get_task writing it.
C25_ExpiryFromLastWrite == []C25_LivesFromLastWrite /\ [][C25_FreshOnWrite]_vars

\* a record get_task has just rewritten, with the whole TTL ahead again, next
\* to a task that expired unpolled
C25_Witness ==
    \E c \in Clients :
        /\ Answered(c)
        /\ req[c].task_id \in DOMAIN taskStore
        /\ taskStore[req[c].task_id].idle = 0
        /\ taskStore[req[c].task_id].ttl = _TASK_TTL
        /\ taskStore[req[c].task_id].meta.status = "complete"
        /\ \E u \in TaskIds : u < nextId /\ u \notin DOMAIN taskStore

(***************************************************************************)
(* Tasks with requested analyses (C26)                                     *)
(***************************************************************************)
\* C26: no record ever has an analysis entry in sub_tasks, so get_task never
\* answers complete for a task with a requested analysis: a call that finds
\* the data job succeeded answers analyzing, every requested analysis pending.
C26_NeverComplete ==
    /\ \A t \in DOMAIN taskStore : DOMAIN taskStore[t].meta.sub_tasks = {"data"}
    /\ \A c \in Clients :
           Answered(c) /\ Requested(c) # {}
               => /\ req[c].response.status # "complete"
                  /\ DOMAIN req[c].meta.sub_tasks = {"data"}
                  /\ req[c].state0 = "SUCCESS"
                         => /\ req[c].response.status = "analyzing"
                            /\ \A a \in Requested(c) :
                                   req[c].response.results[a] = [status |-> "pending"]

\* an answer of analyzing, both requested analyses pending, for a task whose
\* data job has succeeded; the record is still there some time later
C26_Witness ==
    \E c \in Clients :
        /\ Answered(c)
        /\ Cardinality(Requested(c)) = 2
        /\ req[c].state0 = "SUCCESS"
        /\ req[c].response.status = "analyzing"
        /\ req[c].task_id \in DOMAIN taskStore
        /\ taskStore[req[c].task_id].idle > 0

====
